---- MODULE Spec2Model ----
(***************************************************************************)
(* Book-Cocktail: the generation pipeline of app.py (title or URL input,   *)
(* generated queries, verified links, null-safe output) and of the older   *)
(* api_server.py (title input, static queries, one search hit per slot).   *)
(*                                                                         *)
(* Python values are tagged records so that None, strings, dicts and lists *)
(* can be compared with one another.  Strings are atomic; where the code   *)
(* inspects the text of a string (urlparse, startswith, splitlines, the    *)
(* substring tests) the text is given by a table below.  Japanese message  *)
(* texts are written in English.                                           *)
(***************************************************************************)
EXTENDS Naturals, Sequences, FiniteSets, TLC

VARIABLES
    GEMINI_API_KEY,   \* process-wide configuration: is the key set
    pc,               \* position of the request handler
    endpoint,         \* the route serving the current request
    user_input,       \* the request's input (user_input / book_title)
    book_title,       \* local of generate_cocktail_data
    summary_text,     \* local of generate_cocktail_data
    queries,          \* app.py: the parsed answer to the query prompt
    sources,          \* slot -> chosen source (comp_source, cont_source, ...)
    payload,          \* the value generate_cocktail_data returned
    response,         \* what the endpoint gave the caller: [status, body]
    calls,            \* the external calls of the current request, in order
    candidates,       \* pick_best_result alone: its argument
    probe_responses,  \* pick_best_result alone: what each probe will meet
    pick,             \* pick_best_result alone: [result, probed]
    x,                \* _denull alone: its argument
    once,             \* _denull alone: _denull(x)
    twice             \* _denull alone: _denull(_denull(x))

vars == <<GEMINI_API_KEY, pc, endpoint, user_input, book_title, summary_text,
          queries, sources, payload, response, calls, candidates,
          probe_responses, pick, x, once, twice>>

pipeline_vars == <<GEMINI_API_KEY, pc, endpoint, user_input, book_title,
                   summary_text, queries, sources, payload, response, calls>>
pick_vars == <<candidates, probe_responses, pick>>
denull_vars == <<x, once, twice>>

-----------------------------------------------------------------------------
(* Bounds *)

MaxCandidates == 3   \* longest list given to pick_best_result on its own
MaxResults == 2      \* most items a search returns within a request
MaxListLen == 2      \* longest list inside a JSON-like value

-----------------------------------------------------------------------------
(* Python values *)

None == [t |-> "None"]
Str(s) == [t |-> "str", s |-> s]
Dict(f) == [t |-> "dict", d |-> f]
List(q) == [t |-> "list", l |-> q]
EmptyDict == Dict([k \in {} |-> None])

\* Python truthiness, as used by `if not v`
Falsy(v) ==
    \/ v.t = "None"
    \/ v.t = "str" /\ v.s = ""
    \/ v.t = "dict" /\ DOMAIN v.d = {}
    \/ v.t = "list" /\ v.l = <<>>

\* dict.get(key, default)
GetOr(v, key, default) == IF key \in DOMAIN v.d THEN v.d[key] ELSE default
\* dict.get(key)
Get(v, key) == GetOr(v, key, None)

\* d[key] = value
SetItem(v, key, value) ==
    Dict([k \in DOMAIN v.d \cup {key} |-> IF k = key THEN value ELSE v.d[k]])

-----------------------------------------------------------------------------
(* _denull *)

\* _denull that does not go into lists
RECURSIVE _denull_shallow(_)
_denull_shallow(v) ==
    IF v.t = "None" THEN Str("")
    ELSE IF v.t = "dict" THEN Dict([k \in DOMAIN v.d |-> _denull_shallow(v.d[k])])
    ELSE v

RECURSIVE _denull(_)
_denull(v) ==
    IF v.t = "None" THEN Str("")
    ELSE IF v.t = "dict" THEN Dict([k \in DOMAIN v.d |-> _denull(v.d[k])])
    ELSE IF v.t = "list" THEN List([i \in 1..Len(v.l) |-> _denull(v.l[i])])
    ELSE v

\* Does None occur in v at any depth
RECURSIVE HasNone(_)
HasNone(v) ==
    \/ v.t = "None"
    \/ v.t = "dict" /\ \E k \in DOMAIN v.d : HasNone(v.d[k])
    \/ v.t = "list" /\ \E i \in 1..Len(v.l) : HasNone(v.l[i])

-----------------------------------------------------------------------------
(* The text of the strings whose characters the code looks at, as tokens *)

U_ARXIV == "https://ArXiv.org/abs/1"
U_BLOG == "https://x.blogspot.com/post"
U_BARE_ARXIV == "arxiv.org/abs/1"
U_BARE_BLOG == "x.blogspot.com"
IN_TITLE == "I Am a Cat"
IN_URL == " https://example.org/essay"

Text(s) ==
    CASE s = U_ARXIV -> <<"https", ":", "//", "ArXiv", ".", "org", "/", "abs", "/", "1">>
      [] s = U_BLOG -> <<"https", ":", "//", "x", ".", "blogspot", ".", "com", "/", "post">>
      [] s = U_BARE_ARXIV -> <<"arxiv", ".", "org", "/", "abs", "/", "1">>
      [] s = U_BARE_BLOG -> <<"x", ".", "blogspot", ".", "com">>
      [] s = IN_TITLE -> <<"I", " ", "Am", " ", "a", " ", "Cat">>
      [] s = IN_URL -> <<" ", "https", ":", "//", "example", ".", "org", "/", "essay">>
      [] OTHER -> IF s = "" THEN <<>> ELSE <<s>>

\* str.lower(), token by token
lower(tokens) ==
    [i \in 1..Len(tokens) |-> IF tokens[i] = "ArXiv" THEN "arxiv" ELSE tokens[i]]

\* `needle in haystack` on strings
Contains(needle, haystack) ==
    \E i \in 1..(Len(haystack) + 1) :
        /\ i + Len(needle) - 1 <= Len(haystack)
        /\ SubSeq(haystack, i, i + Len(needle) - 1) = needle

\* str.strip(): whitespace off both ends
RECURSIVE strip(_)
strip(tokens) ==
    IF tokens = <<>> THEN tokens
    ELSE IF Head(tokens) = " " THEN strip(Tail(tokens))
    ELSE IF tokens[Len(tokens)] = " " THEN strip(SubSeq(tokens, 1, Len(tokens) - 1))
    ELSE tokens

Punctuation == {":", "//", "/", ".", "?", "#", " "}

\* The least element of a non-empty set of numbers
Least(S) == CHOOSE i \in S : \A j \in S : i <= j

\* urllib.parse.urlparse: only the netloc component is used.  A scheme is a
\* leading word followed by ':'; the netloc is what follows a '//' that
\* comes right after the scheme (or starts the URL), up to '/', '?' or '#'.
has_scheme(tokens) == Len(tokens) >= 2 /\ tokens[2] = ":" /\ tokens[1] \notin Punctuation
after_scheme(tokens) == IF has_scheme(tokens) THEN SubSeq(tokens, 3, Len(tokens)) ELSE tokens
netloc_end(rest, ends) == IF ends = {} THEN Len(rest) ELSE Least(ends) - 1
netloc(rest) ==
    IF rest # <<>> /\ rest[1] = "//"
    THEN SubSeq(rest, 2, netloc_end(rest, {i \in 2..Len(rest) : rest[i] \in {"/", "?", "#"}}))
    ELSE <<>>
urlparse(url) == [netloc |-> netloc(after_scheme(Text(url)))]

-----------------------------------------------------------------------------
(* Candidate verification: verify_link, pick_best_result *)

_ALLOWED_HOSTS_HINT == {
    <<".", "arxiv", ".", "org">>, <<"arxiv", ".", "org">>, <<".", "nih", ".", "gov">>,
    <<".", "ncbi", ".", "nlm", ".", "nih", ".", "gov">>,
    <<".", "edu">>, <<".", "ac", ".">>, <<".", "gov">>, <<"osf", ".", "io">>,
    <<"ssrn", ".", "com">>, <<"hal", ".", "science">>,
    <<"reuters", ".", "com">>, <<"apnews", ".", "com">>, <<"bbc", ".", "com">>,
    <<"nature", ".", "com">>, <<"jstor", ".", "org">> }

\* What a GET of a candidate's URL can meet
R_OK == [raises |-> FALSE, status_code |-> 200, content_type |-> "text/html; charset=utf-8"]
R_GONE == [raises |-> FALSE, status_code |-> 404, content_type |-> "text/html"]
R_IMAGE == [raises |-> FALSE, status_code |-> 200, content_type |-> "image/png"]
R_TIMEOUT == [raises |-> TRUE, status_code |-> 0, content_type |-> ""]
Responses == {R_OK, R_GONE, R_IMAGE, R_TIMEOUT}

\* "text/html" in ct or "application/pdf" in ct
OpenContentTypes == {"text/html; charset=utf-8", "text/html", "application/pdf"}

\* requests.get raises MissingSchema, a RequestException, for a URL with no
\* scheme; otherwise it meets r
verify_link(url, r) ==
    IF Falsy(url) THEN FALSE
    ELSE IF ~has_scheme(Text(url.s)) \/ r.raises THEN FALSE
    ELSE IF r.status_code # 200 THEN FALSE
    ELSE IF r.content_type \notin OpenContentTypes THEN FALSE
    ELSE TRUE

score(url) ==
    IF \E h \in _ALLOWED_HOSTS_HINT : Contains(h, lower(urlparse(url.s).netloc)) THEN 0 ELSE 1

\* sorted(candidates, key=score of the url), as the order in which the
\* positions of the list come out: the sort is stable and the keys are 0
\* and 1, so the positions of key 0 come first, each group in list order
sorted(items) ==
    LET key(i) == score(GetOr(items[i], "url", Str("")))
        zero(i) == key(i) = 0
        one(i) == key(i) = 1
    IN  SelectSeq([i \in 1..Len(items) |-> i], zero) \o SelectSeq([i \in 1..Len(items) |-> i], one)

\* the walk falling back on the first candidate of the list as it was given
walk_unsorted_fallback(items, order, live) ==
    IF live # {}
    THEN [result |-> items[order[Least(live)]], probed |-> SubSeq(order, 1, Least(live)),
          verified |-> TRUE]
    ELSE [result |-> items[1], probed |-> order, verified |-> FALSE]

\* The walk over the sorted candidates: order[n] is the position in items
\* of the n-th candidate of the sorted list, responses[i] is what a GET of
\* the URL of items[i] meets, live the ranks whose probe passes.  The
\* result records the candidate returned, the positions probed, in order,
\* and whether the candidate returned passed its probe.
walk(items, order, live) ==
    IF live # {}
    THEN [result |-> items[order[Least(live)]], probed |-> SubSeq(order, 1, Least(live)),
          verified |-> TRUE]
    ELSE [result |-> items[order[1]], probed |-> order, verified |-> FALSE]
probe(items, order, responses) ==
    walk(items, order,
         {n \in 1..Len(order) : verify_link(Get(items[order[n]], "url"), responses[order[n]])})

pick_best_result(cands, responses) ==
    IF Falsy(cands) THEN [result |-> None, probed |-> <<>>, verified |-> FALSE]
    ELSE probe(cands.l, sorted(cands.l), responses)

-----------------------------------------------------------------------------
(* Search results *)

\* The items of a Custom Search answer: title, link and (not always) snippet
ITEM_ARXIV ==
    Dict([title |-> Str("A preprint"), link |-> Str(U_ARXIV),
          snippet |-> Str("snippet of the preprint")])
ITEM_BLOG ==
    Dict([title |-> None, link |-> Str(U_BLOG),
          snippet |-> Str("snippet of the blog post")])
ITEM_BARE_ARXIV ==
    Dict([title |-> Str("A bare arxiv link"), link |-> Str(U_BARE_ARXIV)])
ITEM_BARE_BLOG ==
    Dict([title |-> Str("A bare blog link"), link |-> Str(U_BARE_BLOG),
          snippet |-> Str("snippet of the bare blog")])
Items == {ITEM_ARXIV, ITEM_BLOG, ITEM_BARE_ARXIV, ITEM_BARE_BLOG}

\* {"title": item.get('title'), "url": item.get('link'),
\*  "snippet": item.get('snippet', '')}
Candidate(item) ==
    Dict([title |-> Get(item, "title"), url |-> Get(item, "link"),
          snippet |-> GetOr(item, "snippet", Str(""))])

CAND_ARXIV == Candidate(ITEM_ARXIV)
CAND_BLOG == Candidate(ITEM_BLOG)
CAND_BARE_ARXIV == Candidate(ITEM_BARE_ARXIV)
CAND_BARE_BLOG == Candidate(ITEM_BARE_BLOG)
Candidates == {Candidate(item) : item \in Items}

\* What the search service can answer within a request: an error, or a
\* list of items (of well-formed links)
SearchItems == {ITEM_ARXIV, ITEM_BLOG}
SearchAnswers ==
    {[raises |-> TRUE, items |-> <<>>]} \cup
    {[raises |-> FALSE, items |-> q] : q \in UNION {[1..m -> SearchItems] : m \in 0..MaxResults}}

\* app.py google_search: every item as a candidate; None for no items or an error
app_google_search(answer) ==
    IF answer.raises THEN None
    ELSE IF answer.items = <<>> THEN None
    ELSE List([i \in 1..Len(answer.items) |-> Candidate(answer.items[i])])

\* api_server.py google_search: the first item as a candidate, or None
api_google_search(answer) ==
    IF answer.raises THEN None
    ELSE IF answer.items = <<>> THEN None
    ELSE Candidate(answer.items[1])

SeqsUpTo(S, n) == UNION {[1..m -> S] : m \in 0..n}

-----------------------------------------------------------------------------
(* JSON-like values for _denull *)

Unset == [t |-> "unset"]
JsonLeaves == {None, Str("a")}
JsonKeys == {"k1", "k2"}
JsonLevel(S) ==
    S \cup {Dict(f) : f \in UNION {[K -> S] : K \in SUBSET JsonKeys}}
      \cup {List(q) : q \in SeqsUpTo(S, MaxListLen)}
JsonValues == JsonLevel(JsonLevel(JsonLeaves))

-----------------------------------------------------------------------------
(* The request handler at rest *)

Slots == {"complementary", "contrasting", "tangent"}

Idle ==
    /\ pc = "idle"
    /\ endpoint = "none"
    /\ user_input = None
    /\ book_title = None
    /\ summary_text = None
    /\ queries = None
    /\ sources = [s \in Slots |-> None]
    /\ payload = Unset
    /\ response = Unset
    /\ calls = <<>>

-----------------------------------------------------------------------------
(* Messages *)

MSG_UNREADABLE == "could not read the content of the URL"
MSG_NO_SUMMARY == "could not generate a summary from the content of the URL"
MSG_NOT_FOUND == "the book or article entered was not found"
MSG_QUERY_FAILED == "failed to generate the search queries"
MSG_ANALYSIS_FAILED == "the AI could not analyse the content"
MSG_INPUT_REQUIRED == "input is required"
MSG_WEB_FAILED == "an error occurred while generating the cocktail"
MSG_BOT_FAILED == "Failed to generate cocktail data"
MSG_TITLE_REQUIRED == "Book title is required"
UNTITLED == "untitled article"
NO_SUMMARY_INFO == "[no information was found for the summary]"
GEMINI_NO_KEY == "[Gemini API Key not configured]"

\* the text of an exception raised by the generative service
EXC_TEXT == "503 upstream body"
\* f"[Gemini API Error: {e}]"
GeminiErrorText(e) == IF e = EXC_TEXT THEN "[Gemini API Error: 503 upstream body]" ELSE "[Gemini API Error: ]"

\* an error record that keeps an empty summary beside the message
Error_with_summary(message) == Dict([error |-> Str(message), summary |-> Str("")])

Error(message) == Dict([error |-> Str(message)])

-----------------------------------------------------------------------------
(* The generative service *)

\* texts the model can answer with
TXT_SUMMARY == "Title: Pregnancy in Space\nSummary: It is risky."
TXT_ONE_LINE == " Pregnancy in Space "
TXT_NOT_JSON == "Sorry, here is prose"
TXT_EMPTY_OBJECT == "{}"
TXT_ARRAY == "[\"a query\"]"
TXT_QUERIES == "{complementary_query, contrasting_query, tangent_query}"
TXT_QUERIES_PARTIAL == "{complementary_query}"
TXT_FINAL == "{summary, complementary_commentary, contrasting_commentary, tangent_commentary, twist}"
TXT_FINAL_SUMMARY_ONLY == "{summary}"
TXT_FINAL_EMPTY_SUMMARY == "{summary: \"\", twist}"
TXT_FINAL_NO_SUMMARY == "{twist}"
TXT_PROSE == " \"A generated line.\" \n"

GeminiRaises == [raises |-> TRUE, text |-> "", error |-> EXC_TEXT]
GeminiSays(text) == [raises |-> FALSE, text |-> text, error |-> ""]

JSONDecodeError == [t |-> "JSONDecodeError"]

\* json.loads
json_loads(text) ==
    CASE text = TXT_EMPTY_OBJECT -> EmptyDict
      [] text = TXT_ARRAY -> List(<<Str("a query")>>)
      [] text = TXT_QUERIES ->
            Dict([complementary_query |-> Str("analysis site:.edu"),
                  contrasting_query |-> Str("critique site:.ac.jp"),
                  tangent_query |-> Str("an unexpected angle")])
      [] text = TXT_QUERIES_PARTIAL ->
            Dict([complementary_query |-> Str("analysis site:.edu")])
      [] text = TXT_FINAL ->
            Dict([summary |-> Str("A finished summary."),
                  complementary_commentary |-> Str("It supports the work."),
                  contrasting_commentary |-> Str("It challenges the work."),
                  tangent_commentary |-> Str("It reframes the work."),
                  twist |-> Str("A closing remark.")])
      [] text = TXT_FINAL_SUMMARY_ONLY -> Dict([summary |-> Str("A finished summary.")])
      [] text = TXT_FINAL_EMPTY_SUMMARY ->
            Dict([summary |-> Str(""), twist |-> Str("A closing remark.")])
      [] text = TXT_FINAL_NO_SUMMARY -> Dict([twist |-> Str("A closing remark.")])
      [] OTHER -> JSONDecodeError

\* app.py call_gemini: None without a key and on any exception, the parsed
\* JSON when a schema is given, the text otherwise
app_call_gemini(key, schema, outcome) ==
    IF ~key THEN None
    ELSE IF outcome.raises THEN None
    ELSE IF schema
         THEN IF json_loads(outcome.text) = JSONDecodeError THEN None
              ELSE json_loads(outcome.text)
         ELSE Str(outcome.text)

\* api_server.py call_gemini: always a string
api_call_gemini(key, outcome) ==
    IF ~key THEN Str(GEMINI_NO_KEY)
    ELSE IF outcome.raises THEN Str(GeminiErrorText(outcome.error))
    ELSE Str(outcome.text)

\* str.splitlines()
splitlines(text) ==
    CASE text = TXT_SUMMARY -> <<"Title: Pregnancy in Space", "Summary: It is risky.">>
      [] text = "" -> <<>>
      [] OTHER -> <<text>>

\* s.replace(label, "").strip() for the labels "Title:" and "Summary:", and
\* s.strip(), s.strip().replace('"', '')
unlabel(text) ==
    CASE text = "Title: Pregnancy in Space" -> "Pregnancy in Space"
      [] text = "Summary: It is risky." -> "It is risky."
      [] text = TXT_ONE_LINE -> "Pregnancy in Space"
      [] OTHER -> text
str_strip(text) ==
    CASE text = TXT_PROSE -> "\"A generated line.\""
      [] text = TXT_ONE_LINE -> "Pregnancy in Space"
      [] OTHER -> text
unquote(text) ==
    CASE text = "\"A generated line.\"" -> "A generated line."
      [] OTHER -> text

\* "\n".join(lines[1:])
join_rest(lines) ==
    IF Len(lines) <= 1 THEN ""
    ELSE IF Len(lines) = 2 THEN lines[2]
    ELSE "several lines"

\* read_url_content: the text of the reader's answer, None on a RequestException
ReaderAnswers ==
    {[raises |-> TRUE, text |-> ""], [raises |-> FALSE, text |-> ""],
     [raises |-> FALSE, text |-> "the text of the page"]}
read_url_content(answer) == IF answer.raises THEN None ELSE Str(answer.text)

-----------------------------------------------------------------------------
(* Requests *)

AppEndpoints == {"generate_for_web", "api_for_bot"}
ApiEndpoints == {"create_cocktail_endpoint"}
Inputs == {None, Str(IN_TITLE), Str(IN_URL)}

\* One external call: what was called, at which stage, with which argument,
\* and whether it gave the caller something to go on
Call(op, stage, arg, ok) == [op |-> op, stage |-> stage, arg |-> arg, ok |-> ok]

\* f'"{book_title}" summary OR synopsis' and the like: a query built from a
\* template is the template's text, never empty
SUMMARY_QUERY == "\"<book_title>\" summary OR synopsis"
API_SUMMARY_QUERY == "\"<book_title>\" summary OR synopsis OR commentary"

\* jsonify: the Python value as the JSON document the caller receives
RECURSIVE jsonify(_)
jsonify(v) ==
    IF v.t = "None" THEN [t |-> "null"]
    ELSE IF v.t = "dict" THEN [t |-> "object", o |-> [k \in DOMAIN v.d |-> jsonify(v.d[k])]]
    ELSE IF v.t = "list" THEN [t |-> "array", a |-> [i \in 1..Len(v.l) |-> jsonify(v.l[i])]]
    ELSE [t |-> "string", s |-> v.s]

\* user_input.strip().startswith('http')
is_url(input) ==
    LET tokens == strip(Text(input.s))
    IN  tokens # <<>> /\ Head(tokens) \in {"http", "https"}

SlotPc(prefix, slot) ==
    CASE slot = "complementary" -> IF prefix = "app" THEN "app_complementary" ELSE "api_complementary"
      [] slot = "contrasting" -> IF prefix = "app" THEN "app_contrasting" ELSE "api_contrasting"
      [] slot = "tangent" -> IF prefix = "app" THEN "app_tangent" ELSE "api_tangent"
AfterSlot(prefix, slot) ==
    CASE slot = "complementary" -> SlotPc(prefix, "contrasting")
      [] slot = "contrasting" -> SlotPc(prefix, "tangent")
      [] slot = "tangent" -> IF prefix = "app" THEN "app_final" ELSE "api_twist"
QueryKey(slot) ==
    CASE slot = "complementary" -> "complementary_query"
      [] slot = "contrasting" -> "contrasting_query"
      [] slot = "tangent" -> "tangent_query"
CommentaryKey(slot) ==
    CASE slot = "complementary" -> "complementary_commentary"
      [] slot = "contrasting" -> "contrasting_commentary"
      [] slot = "tangent" -> "tangent_commentary"

\* return <value> from generate_cocktail_data
Return(value) == payload' = value /\ pc' = "returned"

\* The three routes: a request with no input is answered 400 at once
Request(route, input) ==
    /\ pc = "idle"
    /\ endpoint' = route
    /\ user_input' = input
    /\ calls' = <<>>
    /\ payload' = Unset
    /\ IF Falsy(input)
       THEN /\ response' = [status |-> 400,
                            body |-> jsonify(Error(IF route \in ApiEndpoints
                                                   THEN MSG_TITLE_REQUIRED
                                                   ELSE MSG_INPUT_REQUIRED))]
            /\ pc' = "idle"
            /\ UNCHANGED <<book_title, summary_text>>
       ELSE /\ response' = Unset
            /\ book_title' = input
            /\ summary_text' = IF route \in AppEndpoints THEN Str("") ELSE None
            /\ pc' = IF route \in AppEndpoints THEN "app_subject" ELSE "api_summary"
    /\ UNCHANGED <<GEMINI_API_KEY, queries, sources>>
    /\ UNCHANGED pick_vars
    /\ UNCHANGED denull_vars

-----------------------------------------------------------------------------
(* app.py generate_cocktail_data *)

\* the page read going on to the summary with whatever it got
App_ReadUrl_proceeds(answer) ==
    /\ pc = "app_subject" /\ is_url(user_input)
    /\ calls' = Append(calls, Call("read_url_content", "subject", user_input,
                                   ~Falsy(read_url_content(answer))))
    /\ pc' = "app_summarize"
    /\ UNCHANGED <<GEMINI_API_KEY, endpoint, user_input, book_title, summary_text,
                   queries, sources, payload, response>>
    /\ UNCHANGED pick_vars
    /\ UNCHANGED denull_vars

\* Step 1, URL input: read the page
App_ReadUrl(answer) ==
    /\ pc = "app_subject" /\ is_url(user_input)
    /\ \E content \in {read_url_content(answer)} :
           /\ calls' = Append(calls, Call("read_url_content", "subject", user_input,
                                          ~Falsy(content)))
           /\ IF Falsy(content)
              THEN Return(Error(MSG_UNREADABLE))
              ELSE pc' = "app_summarize" /\ UNCHANGED payload
    /\ UNCHANGED <<GEMINI_API_KEY, endpoint, user_input, book_title, summary_text,
                   queries, sources, response>>
    /\ UNCHANGED pick_vars
    /\ UNCHANGED denull_vars

\* Step 1, URL input: title and summary from the page text
App_Summarize(outcome) ==
    /\ pc = "app_summarize"
    /\ \E initial_summary \in {app_call_gemini(GEMINI_API_KEY, FALSE, outcome)} :
           /\ calls' = Append(calls, Call("call_gemini", "subject", None,
                                          ~Falsy(initial_summary)))
           /\ IF Falsy(initial_summary)
              THEN Return(Error(MSG_NO_SUMMARY)) /\ UNCHANGED <<book_title, summary_text>>
              ELSE \E lines \in {splitlines(initial_summary.s)} :
                    /\ book_title' = Str(IF lines # <<>> THEN unlabel(lines[1]) ELSE UNTITLED)
                    /\ summary_text' = Str(unlabel(join_rest(lines)))
                    /\ pc' = "app_queries"
                    /\ UNCHANGED payload
    /\ UNCHANGED <<GEMINI_API_KEY, endpoint, user_input, queries, sources, response>>
    /\ UNCHANGED pick_vars
    /\ UNCHANGED denull_vars

\* Step 1, title input: search for a summary source and verify it
App_SummarySearch(answer, responses) ==
    /\ pc = "app_subject" /\ ~is_url(user_input)
    /\ \E picked \in {pick_best_result(app_google_search(answer), responses)} :
           /\ calls' = calls
                       \o <<Call("google_search", "subject", Str(SUMMARY_QUERY),
                                 ~Falsy(app_google_search(answer)))>>
                       \o (IF picked.probed # <<>>
                           THEN <<Call("verify_link", "subject", None, picked.verified)>>
                           ELSE <<>>)
           /\ IF Falsy(picked.result)
              THEN Return(Error(MSG_NOT_FOUND)) /\ UNCHANGED summary_text
              ELSE /\ summary_text' = picked.result.d["snippet"]
                   /\ pc' = "app_queries"
                   /\ UNCHANGED payload
    /\ UNCHANGED <<GEMINI_API_KEY, endpoint, user_input, book_title, queries, sources,
                   response>>
    /\ UNCHANGED pick_vars
    /\ UNCHANGED denull_vars

\* the query step falling back on static templates when the model fails
App_Queries_fallback(outcome) ==
    /\ pc = "app_queries"
    /\ \E answer \in {app_call_gemini(GEMINI_API_KEY, TRUE, outcome)} :
           /\ calls' = Append(calls, Call("call_gemini", "queries", None, ~Falsy(answer)))
           /\ queries' = IF Falsy(answer)
                         THEN Dict([complementary_query |-> Str("static complementary"),
                                    contrasting_query |-> Str("static contrasting"),
                                    tangent_query |-> Str("static tangent")])
                         ELSE answer
           /\ pc' = IF queries'.t = "dict" THEN "app_complementary" ELSE "raised"
    /\ UNCHANGED <<GEMINI_API_KEY, endpoint, user_input, book_title, summary_text,
                   sources, payload, response>>
    /\ UNCHANGED pick_vars
    /\ UNCHANGED denull_vars

\* Step 2: the model writes the three queries.  A parsed answer that is
\* not a dict makes queries.get raise before the first search.
App_Queries(outcome) ==
    /\ pc = "app_queries"
    /\ \E answer \in {app_call_gemini(GEMINI_API_KEY, TRUE, outcome)} :
           /\ calls' = Append(calls, Call("call_gemini", "queries", None, ~Falsy(answer)))
           /\ IF Falsy(answer)
              THEN Return(Error(MSG_QUERY_FAILED)) /\ UNCHANGED queries
              ELSE /\ queries' = answer
                   /\ pc' = IF answer.t = "dict" THEN "app_complementary" ELSE "raised"
                   /\ UNCHANGED payload
    /\ UNCHANGED <<GEMINI_API_KEY, endpoint, user_input, book_title, summary_text,
                   sources, response>>
    /\ UNCHANGED pick_vars
    /\ UNCHANGED denull_vars

\* the slot step treating a slot with no source as a work not found
App_Slot_fatal(slot, answer, responses) ==
    /\ pc = SlotPc("app", slot)
    /\ \E picked \in {pick_best_result(app_google_search(answer), responses)} :
           /\ calls' = calls
                       \o <<Call("google_search", slot, Get(queries, QueryKey(slot)),
                                 ~Falsy(app_google_search(answer)))>>
                       \o (IF picked.probed # <<>>
                           THEN <<Call("verify_link", slot, None, picked.verified)>>
                           ELSE <<>>)
           /\ sources' = [sources EXCEPT ![slot] = picked.result]
           /\ IF Falsy(picked.result)
              THEN Return(Error(MSG_NOT_FOUND))
              ELSE pc' = AfterSlot("app", slot) /\ UNCHANGED payload
    /\ UNCHANGED <<GEMINI_API_KEY, endpoint, user_input, book_title, summary_text,
                   queries, response>>
    /\ UNCHANGED pick_vars
    /\ UNCHANGED denull_vars

\* Step 3, once per slot: search with the slot's query, verify, keep the pick
App_Slot(slot, answer, responses) ==
    /\ pc = SlotPc("app", slot)
    /\ \E picked \in {pick_best_result(app_google_search(answer), responses)} :
           /\ calls' = calls
                       \o <<Call("google_search", slot, Get(queries, QueryKey(slot)),
                                 ~Falsy(app_google_search(answer)))>>
                       \o (IF picked.probed # <<>>
                           THEN <<Call("verify_link", slot, None, picked.verified)>>
                           ELSE <<>>)
           /\ sources' = [sources EXCEPT ![slot] = picked.result]
    /\ pc' = AfterSlot("app", slot)
    /\ UNCHANGED <<GEMINI_API_KEY, endpoint, user_input, book_title, summary_text,
                   queries, payload, response>>
    /\ UNCHANGED pick_vars
    /\ UNCHANGED denull_vars

\* Step 5: every slot that has a source gets its commentary
assemble(found, final_result) ==
    [s \in Slots |->
        IF Falsy(found[s]) THEN found[s]
        ELSE SetItem(found[s], "commentary", Get(final_result, CommentaryKey(s)))]

\* not (not final_result or not final_result.get("summary")), for a dict
usable(final_result) ==
    ~Falsy(final_result) /\ final_result.t = "dict" /\ ~Falsy(Get(final_result, "summary"))

\* the final generation asked a second time when its first answer was of
\* no use
App_Final_retry(outcome) ==
    /\ pc = "app_final"
    /\ \E final_result \in {app_call_gemini(GEMINI_API_KEY, TRUE, outcome)} :
           /\ calls' = Append(calls, Call("call_gemini", "final", None, usable(final_result)))
           /\ IF ~usable(final_result) /\ ~(\E i \in DOMAIN calls : calls[i].stage = "final")
              THEN pc' = "app_final" /\ UNCHANGED <<payload, sources>>
              ELSE IF Falsy(final_result)
              THEN Return(Error(MSG_ANALYSIS_FAILED)) /\ UNCHANGED sources
              ELSE IF final_result.t # "dict"
              THEN pc' = "raised" /\ UNCHANGED <<payload, sources>>
              ELSE IF Falsy(Get(final_result, "summary"))
              THEN Return(Error(MSG_ANALYSIS_FAILED)) /\ UNCHANGED sources
              ELSE /\ sources' = assemble(sources, final_result)
                   /\ Return(Dict([book_title |-> book_title,
                                   summary |-> Get(final_result, "summary"),
                                   complementary |-> sources'["complementary"],
                                   contrasting |-> sources'["contrasting"],
                                   tangent |-> sources'["tangent"],
                                   twist |-> Get(final_result, "twist")]))
    /\ UNCHANGED <<GEMINI_API_KEY, endpoint, user_input, book_title, summary_text,
                   queries, response>>
    /\ UNCHANGED pick_vars
    /\ UNCHANGED denull_vars

\* Steps 4 and 5: the model writes the texts; the payload is assembled.  A
\* parsed answer that is not a dict makes final_result.get raise.
App_Final(outcome) ==
    /\ pc = "app_final"
    /\ \E final_result \in {app_call_gemini(GEMINI_API_KEY, TRUE, outcome)} :
           /\ calls' = Append(calls, Call("call_gemini", "final", None, usable(final_result)))
           /\ IF Falsy(final_result)
              THEN Return(Error(MSG_ANALYSIS_FAILED)) /\ UNCHANGED sources
              ELSE IF final_result.t # "dict"
              THEN pc' = "raised" /\ UNCHANGED <<payload, sources>>
              ELSE IF Falsy(Get(final_result, "summary"))
              THEN Return(Error(MSG_ANALYSIS_FAILED)) /\ UNCHANGED sources
              ELSE /\ sources' = assemble(sources, final_result)
                   /\ Return(Dict([book_title |-> book_title,
                                   summary |-> Get(final_result, "summary"),
                                   complementary |-> sources'["complementary"],
                                   contrasting |-> sources'["contrasting"],
                                   tangent |-> sources'["tangent"],
                                   twist |-> Get(final_result, "twist")]))
    /\ UNCHANGED <<GEMINI_API_KEY, endpoint, user_input, book_title, summary_text,
                   queries, response>>
    /\ UNCHANGED pick_vars
    /\ UNCHANGED denull_vars

\* generate_for_web, api_for_bot: the payload without None, or the route's
\* own message with status 500 when generate_cocktail_data raised
App_Respond ==
    /\ endpoint \in AppEndpoints
    /\ pc \in {"returned", "raised"}
    /\ response' =
          IF pc = "returned" THEN [status |-> 200, body |-> jsonify(_denull(payload))]
          ELSE [status |-> 500,
                body |-> jsonify(Error(IF endpoint = "generate_for_web"
                                       THEN MSG_WEB_FAILED ELSE MSG_BOT_FAILED))]
    /\ pc' = "idle"
    /\ book_title' = None /\ summary_text' = None /\ queries' = None
    /\ sources' = [s \in Slots |-> None]
    /\ UNCHANGED <<GEMINI_API_KEY, endpoint, user_input, payload, calls>>
    /\ UNCHANGED pick_vars
    /\ UNCHANGED denull_vars

-----------------------------------------------------------------------------
(* api_server.py generate_cocktail_data *)

Themes == {"postcolonial criticism", "feminist criticism",
           "economic interpretation", "psychoanalytic criticism"}
\* f'"{book_title}" {random.choice([...])}'
TangentQuery(theme) ==
    CASE theme = "postcolonial criticism" -> "\"<book_title>\" postcolonial criticism"
      [] theme = "feminist criticism" -> "\"<book_title>\" feminist criticism"
      [] theme = "economic interpretation" -> "\"<book_title>\" economic interpretation"
      [] theme = "psychoanalytic criticism" -> "\"<book_title>\" psychoanalytic criticism"

\* source_types
source_types(theme) ==
    Dict([complementary |-> Str("\"<book_title>\" paper OR scholarly study"),
          contrasting |-> Str("\"<book_title>\" criticism OR problems"),
          tangent |-> Str(TangentQuery(theme))])

\* The summary: one search hit, summarised by the model; then the three
\* static queries are built
Api_Summary(answer, outcome, theme) ==
    /\ pc = "api_summary"
    /\ LET summary_source == api_google_search(answer)
       IN  /\ calls' = calls
                       \o <<Call("google_search", "subject", Str(API_SUMMARY_QUERY),
                                 ~Falsy(summary_source))>>
                       \o (IF Falsy(summary_source) THEN <<>>
                           ELSE <<Call("call_gemini", "subject", None,
                                       GEMINI_API_KEY /\ ~outcome.raises)>>)
           /\ summary_text' = IF Falsy(summary_source) THEN Str(NO_SUMMARY_INFO)
                              ELSE api_call_gemini(GEMINI_API_KEY, outcome)
    /\ queries' = source_types(theme)
    /\ pc' = "api_complementary"
    /\ UNCHANGED <<GEMINI_API_KEY, endpoint, user_input, book_title, sources, payload,
                   response>>
    /\ UNCHANGED pick_vars
    /\ UNCHANGED denull_vars

\* One turn of the loop over source_types: one search hit and its commentary
Api_Slot(slot, answer, outcome) ==
    /\ pc = SlotPc("api", slot)
    /\ LET query == queries.d[slot]
           source == api_google_search(answer)
           generated_commentary == api_call_gemini(GEMINI_API_KEY, outcome)
       IN  /\ calls' = calls
                       \o <<Call("google_search", slot, query, ~Falsy(source))>>
                       \o (IF Falsy(source) THEN <<>>
                           ELSE <<Call("call_gemini", slot, None,
                                       GEMINI_API_KEY /\ ~outcome.raises)>>)
           /\ sources' = [sources EXCEPT ![slot] =
                            IF Falsy(source) THEN None
                            ELSE SetItem(source, "commentary",
                                         Str(str_strip(generated_commentary.s)))]
    /\ pc' = AfterSlot("api", slot)
    /\ UNCHANGED <<GEMINI_API_KEY, endpoint, user_input, book_title, summary_text,
                   queries, payload, response>>
    /\ UNCHANGED pick_vars
    /\ UNCHANGED denull_vars

\* The closing remark and the returned record
Api_Twist(outcome) ==
    /\ pc = "api_twist"
    /\ calls' = Append(calls, Call("call_gemini", "final", None,
                                   GEMINI_API_KEY /\ ~outcome.raises))
    /\ LET twist_text == Str(unquote(str_strip(api_call_gemini(GEMINI_API_KEY, outcome).s)))
       IN  Return(Dict([book_title |-> book_title, summary |-> summary_text,
                        complementary |-> sources["complementary"],
                        contrasting |-> sources["contrasting"],
                        tangent |-> sources["tangent"],
                        twist |-> twist_text]))
    /\ UNCHANGED <<GEMINI_API_KEY, endpoint, user_input, book_title, summary_text,
                   queries, sources, response>>
    /\ UNCHANGED pick_vars
    /\ UNCHANGED denull_vars

\* create_cocktail_endpoint: the record as it is
Api_Respond ==
    /\ endpoint \in ApiEndpoints
    /\ pc = "returned"
    /\ response' = [status |-> 200, body |-> jsonify(payload)]
    /\ pc' = "idle"
    /\ book_title' = None /\ summary_text' = None /\ queries' = None
    /\ sources' = [s \in Slots |-> None]
    /\ UNCHANGED <<GEMINI_API_KEY, endpoint, user_input, payload, calls>>
    /\ UNCHANGED pick_vars
    /\ UNCHANGED denull_vars

-----------------------------------------------------------------------------
(* The servers *)

SummaryOutcomes == {GeminiRaises, GeminiSays(""), GeminiSays(TXT_SUMMARY), GeminiSays(TXT_ONE_LINE)}
QueryOutcomes ==
    {GeminiRaises} \cup {GeminiSays(text) : text \in
        {TXT_NOT_JSON, TXT_EMPTY_OBJECT, TXT_ARRAY, TXT_QUERIES, TXT_QUERIES_PARTIAL}}
FinalOutcomes ==
    {GeminiRaises} \cup {GeminiSays(text) : text \in
        {TXT_NOT_JSON, TXT_EMPTY_OBJECT, TXT_ARRAY, TXT_FINAL, TXT_FINAL_SUMMARY_ONLY,
         TXT_FINAL_EMPTY_SUMMARY, TXT_FINAL_NO_SUMMARY}}
ProseOutcomes == {GeminiRaises, GeminiSays(TXT_PROSE)}

\* what the probes of a request meet: a live page or a dead one
ProbeResponses(answer) == [1..Len(answer.items) -> {R_OK, R_GONE}]

Init ==
    /\ Idle
    /\ GEMINI_API_KEY \in BOOLEAN
    /\ candidates = None /\ probe_responses = <<>> /\ pick = Unset
    /\ x = Unset /\ once = Unset /\ twice = Unset

Next ==
    \/ \E route \in AppEndpoints \cup ApiEndpoints, input \in Inputs : Request(route, input)
    \/ \E answer \in ReaderAnswers : App_ReadUrl(answer)
    \/ \E outcome \in SummaryOutcomes : App_Summarize(outcome)
    \/ \E answer \in SearchAnswers : \E responses \in ProbeResponses(answer) :
          App_SummarySearch(answer, responses)
    \/ \E outcome \in QueryOutcomes : App_Queries(outcome)
    \/ \E slot \in Slots, answer \in SearchAnswers : \E responses \in ProbeResponses(answer) :
          App_Slot(slot, answer, responses)
    \/ \E outcome \in FinalOutcomes : App_Final(outcome)
    \/ App_Respond
    \/ \E answer \in SearchAnswers, outcome \in ProseOutcomes, theme \in Themes :
          Api_Summary(answer, outcome, theme)
    \/ \E slot \in Slots, answer \in SearchAnswers, outcome \in ProseOutcomes :
          Api_Slot(slot, answer, outcome)
    \/ \E outcome \in ProseOutcomes : Api_Twist(outcome)
    \/ Api_Respond

Spec == Init /\ [][Next]_vars

-----------------------------------------------------------------------------
(* pick_best_result on its own: any candidate list, any probe outcomes *)

CandidateLists ==
    {None} \cup {List(q) : q \in SeqsUpTo(Candidates, MaxCandidates)}

PickInit ==
    /\ Idle /\ GEMINI_API_KEY = TRUE
    /\ candidates \in CandidateLists
    /\ probe_responses \in
           IF candidates.t = "list" THEN [1..Len(candidates.l) -> Responses] ELSE {<<>>}
    /\ pick = Unset
    /\ x = Unset /\ once = Unset /\ twice = Unset

PickBestResult ==
    /\ pick = Unset
    /\ pick' = pick_best_result(candidates, probe_responses)
    /\ UNCHANGED <<candidates, probe_responses>>
    /\ UNCHANGED pipeline_vars
    /\ UNCHANGED denull_vars

PickNext == PickBestResult

SpecPick == PickInit /\ [][PickNext]_vars

-----------------------------------------------------------------------------
(* _denull on its own: any JSON-like value, applied once and twice *)

DenullInit ==
    /\ Idle /\ GEMINI_API_KEY = TRUE
    /\ candidates = None /\ probe_responses = <<>> /\ pick = Unset
    /\ x \in JsonValues
    /\ once = Unset /\ twice = Unset

DenullOnce ==
    /\ once = Unset
    /\ once' = _denull(x)
    /\ UNCHANGED <<x, twice>>
    /\ UNCHANGED pipeline_vars
    /\ UNCHANGED pick_vars

DenullTwice ==
    /\ once # Unset /\ twice = Unset
    /\ twice' = _denull(once)
    /\ UNCHANGED <<x, once>>
    /\ UNCHANGED pipeline_vars
    /\ UNCHANGED pick_vars

DenullNext == DenullOnce \/ DenullTwice

SpecDenull == DenullInit /\ [][DenullNext]_vars

-----------------------------------------------------------------------------
(* Claims about pick_best_result *)

Picked == pick # Unset
NonEmptyList == candidates.t = "list" /\ candidates.l # <<>>

\* The host a reader takes a URL to name, scheme or no scheme
NamedHost(url) ==
    CASE url = U_ARXIV -> <<"arxiv", ".", "org">>
      [] url = U_BARE_ARXIV -> <<"arxiv", ".", "org">>
      [] url = U_BLOG -> <<"x", ".", "blogspot", ".", "com">>
      [] url = U_BARE_BLOG -> <<"x", ".", "blogspot", ".", "com">>
      [] OTHER -> <<>>
OnAllowList(c) == \E h \in _ALLOWED_HOSTS_HINT : Contains(h, NamedHost(c.d.url.s))

\* Position i of the list is ranked before position j: its host is on the
\* allow-list and j's is not, or the two agree on that and i comes first
RankedBefore(i, j) ==
    LET a == OnAllowList(candidates.l[i])
        b == OnAllowList(candidates.l[j])
    IN  (a /\ ~b) \/ ((a <=> b) /\ i < j)
\* the same with the host as urlparse finds it
ParsedOnAllowList(c) == score(c.d.url) = 0
ParsedRankedBefore(i, j) ==
    LET a == ParsedOnAllowList(candidates.l[i])
        b == ParsedOnAllowList(candidates.l[j])
    IN  (a /\ ~b) \/ ((a <=> b) /\ i < j)

EveryProbeFails ==
    \A i \in 1..Len(candidates.l) :
        ~verify_link(candidates.l[i].d.url, probe_responses[i])

\* C5: for a non-empty list whose candidates all fail the probe the result
\* is the top-ranked candidate; the result is empty exactly when the list
\* was empty or absent; the result for a non-empty list is one of its members.
C5_FallbackToTopRanked ==
    Picked =>
        /\ (pick.result = None) <=> ~NonEmptyList
        /\ NonEmptyList =>
              \E i \in 1..Len(candidates.l) : pick.result = candidates.l[i]
        /\ (NonEmptyList /\ EveryProbeFails) =>
              \E i \in 1..Len(candidates.l) :
                  /\ pick.result = candidates.l[i]
                  /\ \A j \in 1..Len(candidates.l) : j # i => ParsedRankedBefore(i, j)

\* a list of two differently ranked candidates, the better one last, all dead
C5_Witness ==
    /\ Picked /\ NonEmptyList /\ EveryProbeFails
    /\ Len(candidates.l) >= 2
    /\ candidates.l[1] = CAND_BLOG
    /\ pick.result = CAND_ARXIV

\* C10: the probes go in ranked order (hosts on the allow-list first, list
\* order within a rank), a candidate is probed only after every candidate
\* ranked before it, and of x.blogspot.com, arxiv.org/abs/1 the arxiv.org
\* candidate is probed first.
C10_ProbesInRankedOrder ==
    (Picked /\ NonEmptyList) =>
        /\ \A m, n \in 1..Len(pick.probed) :
              m < n => RankedBefore(pick.probed[m], pick.probed[n])
        /\ \A n \in 1..Len(pick.probed) : \A i \in 1..Len(candidates.l) :
              RankedBefore(i, pick.probed[n]) => \E m \in 1..(n - 1) : pick.probed[m] = i
        /\ candidates.l = <<CAND_BARE_BLOG, CAND_BARE_ARXIV>> =>
              candidates.l[pick.probed[1]] = CAND_BARE_ARXIV

-----------------------------------------------------------------------------
(* Claims about _denull *)

\* C9: _denull applied twice gives what it gives applied once, and its
\* result holds no None at any depth.
C9_DenullIdempotent ==
    /\ once # Unset => ~HasNone(once)
    /\ twice # Unset => twice = once

\* a dict holding a list that holds None, normalised twice
C9_Witness ==
    /\ twice # Unset
    /\ x.t = "dict" /\ "k1" \in DOMAIN x.d
    /\ x.d["k1"] = List(<<None, Str("a")>>)
    /\ once # x

-----------------------------------------------------------------------------
(* Claims about the requests *)

Made(op) == \E i \in DOMAIN calls : calls[i].op = op
Failed(op, stage) ==
    \E i \in DOMAIN calls : calls[i].op = op /\ calls[i].stage = stage /\ ~calls[i].ok
Succeeded(op, stage) ==
    \E i \in DOMAIN calls : calls[i].op = op /\ calls[i].stage = stage /\ calls[i].ok

SuccessKeys == {"book_title", "summary", "complementary", "contrasting", "tangent", "twist"}
SlotFields == {"title", "url", "snippet", "commentary"}
AbortMessages ==
    {MSG_UNREADABLE, MSG_NO_SUMMARY, MSG_NOT_FOUND, MSG_QUERY_FAILED, MSG_ANALYSIS_FAILED}
IsFailure(p) ==
    /\ DOMAIN p.d = {"error"}
    /\ \E m \in AbortMessages : p.d["error"] = [t |-> "str", s |-> m]
IsSuccess(p) == DOMAIN p.d = SuccessKeys

\* the caller got a success payload
SuccessBody ==
    /\ response # Unset
    /\ response.status = 200
    /\ "error" \notin DOMAIN response.body.o

\* C1: in every success payload an endpoint returns each of the three
\* slots is there and is not null, and a slot that is an object has title,
\* url, snippet and commentary, each a string; a slot with nothing found
\* holds nothing but empty strings.
C1_SlotsNeverNull ==
    SuccessBody =>
        \A slot \in Slots :
            /\ slot \in DOMAIN response.body.o
            /\ response.body.o[slot].t \in {"object", "string"}
            /\ response.body.o[slot].t = "string" => response.body.o[slot].s = ""
            /\ response.body.o[slot].t = "object" =>
                  \A f \in SlotFields :
                      /\ f \in DOMAIN response.body.o[slot].o
                      /\ response.body.o[slot].o[f].t = "string"

\* C2: for a title whose summary search finds nothing, the request never
\* calls the generative model and generate_cocktail_data returns the
\* NotFound error and nothing else.
C2_NotFoundShortCircuit ==
    (Failed("google_search", "subject") /\ ~is_url(user_input)) =>
        /\ ~Made("call_gemini")
        /\ payload # Unset => payload = Dict([error |-> Str(MSG_NOT_FOUND)])

\* C3: when read_url_content gives no text for a URL input, that read is
\* the only external call of the request (no generation, search or probe)
\* and generate_cocktail_data returns the UnreadableSource error.
C3_UnreadableSourceStops ==
    Failed("read_url_content", "subject") =>
        /\ Len(calls) = 1
        /\ ~Made("call_gemini") /\ ~Made("google_search") /\ ~Made("verify_link")
        /\ pc \in {"returned", "idle"}
        /\ payload = Dict([error |-> Str(MSG_UNREADABLE)])

\* a URL request answered after its page could not be read
C3_Witness ==
    /\ Failed("read_url_content", "subject")
    /\ is_url(user_input)
    /\ pc = "idle" /\ response # Unset

\* the request's last external call failed at a stage that cannot be skipped
Aborted ==
    /\ calls # <<>>
    /\ ~calls[Len(calls)].ok
    /\ \/ calls[Len(calls)].op \in {"read_url_content", "call_gemini"}
       \/ calls[Len(calls)].op = "google_search" /\ calls[Len(calls)].stage = "subject"

\* C4: what app.py's generate_cocktail_data returns is a success record or
\* a failure record: a failure record has the one field error with one of
\* the abort messages, and an aborted request returns a failure record.
C4_SuccessOrFailure ==
    (endpoint \in AppEndpoints /\ payload # Unset) =>
        /\ IsFailure(payload) \/ IsSuccess(payload)
        /\ Aborted => IsFailure(payload)

\* the final generation fails after sources were found for all three slots
C4_Witness ==
    /\ endpoint \in AppEndpoints /\ pc = "returned"
    /\ Aborted /\ calls[Len(calls)].stage = "final"
    /\ \A slot \in Slots : sources[slot] # None
    /\ IsFailure(payload)

\* C6: a slot's step goes on to the next stage whatever its search gave,
\* leaves the other two slots' sources as they were and leaves its own
\* slot empty when its search found nothing; and a request whose query and
\* final generation succeeded returns the success record with the sources
\* chosen, an empty slot for every search that found nothing.
C6_SlotStep ==
    \A slot \in Slots : \A prefix \in {"app", "api"} :
        pc = SlotPc(prefix, slot) =>
            /\ pc' = AfterSlot(prefix, slot)
            /\ payload' = Unset
            /\ \A other \in Slots \ {slot} : sources'[other] = sources[other]
            /\ (\E i \in DOMAIN calls' :
                   /\ calls'[i].op = "google_search" /\ calls'[i].stage = slot
                   /\ ~calls'[i].ok) => sources'[slot] = None
C6_Returned ==
    (/\ pc = "returned"
     /\ \/ endpoint \in ApiEndpoints
        \/ Succeeded("call_gemini", "queries") /\ Succeeded("call_gemini", "final")) =>
        /\ IsSuccess(payload)
        /\ \A slot \in Slots :
              /\ payload.d[slot] = sources[slot]
              /\ Failed("google_search", slot) => payload.d[slot] = None
C6_EmptySlotIsNotAnError == [][C6_SlotStep]_vars /\ []C6_Returned

\* app.py returns a success record whose first slot found nothing and whose
\* other two slots found a source
C6_Witness ==
    /\ endpoint \in AppEndpoints /\ pc = "returned"
    /\ IsSuccess(payload)
    /\ Failed("google_search", "complementary")
    /\ payload.d["complementary"] = None
    /\ payload.d["contrasting"] # None /\ payload.d["tangent"] # None

RECURSIVE JsonStrings(_)
JsonStrings(v) ==
    IF v.t = "string" THEN {v.s}
    ELSE IF v.t = "object" THEN UNION {JsonStrings(v.o[k]) : k \in DOMAIN v.o}
    ELSE IF v.t = "array" THEN UNION {JsonStrings(v.a[i]) : i \in 1..Len(v.a)}
    ELSE {}

\* text that comes from an exception
ExceptionTexts == {EXC_TEXT, "[Gemini API Error: 503 upstream body]", "[Gemini API Error: ]"}

\* C8: no string of anything an endpoint returns is the text of an
\* exception or is built from it.
C8_NoExceptionText ==
    response # Unset => JsonStrings(response.body) \cap ExceptionTexts = {}

\* the stage of generate_cocktail_data a position belongs to: 1 subject
\* resolution, 2 slot search and verification (the queries and the three
\* slots), 3 final narrative generation, 4 the function has ended
Phase(at) ==
    CASE at \in {"app_subject", "app_summarize"} -> 1
      [] at \in {"app_queries", "app_complementary", "app_contrasting", "app_tangent"} -> 2
      [] at = "app_final" -> 3
      [] at \in {"returned", "raised"} -> 4
      [] OTHER -> 0
\* the place of a call's stage in the order of the stages
StageRank(stage) ==
    CASE stage = "subject" -> 1
      [] stage = "queries" -> 2
      [] stage = "complementary" -> 3
      [] stage = "contrasting" -> 4
      [] stage = "tangent" -> 5
      [] stage = "final" -> 6
\* the stage whose calls are made at a position
StageAt(at) ==
    CASE at \in {"app_subject", "app_summarize"} -> "subject"
      [] at = "app_queries" -> "queries"
      [] at = "app_complementary" -> "complementary"
      [] at = "app_contrasting" -> "contrasting"
      [] at = "app_tangent" -> "tangent"
      [] at = "app_final" -> "final"
      [] OTHER -> "none"
\* a call whose failure cannot be skipped
FatalFailure(call) ==
    /\ ~call.ok
    /\ \/ call.op \in {"read_url_content", "call_gemini"}
       \/ call.op = "google_search" /\ call.stage = "subject"
\* the caller was told of a failure
FailureBody == response # Unset /\ "error" \in DOMAIN response.body.o

\* one step of a request of app.py
C11_Step ==
    endpoint' \in AppEndpoints =>
        \* the stages come in order, none skipped, none gone back to
        /\ Phase(pc) \in 1..3 => Phase(pc') \in {Phase(pc), Phase(pc) + 1, 4}
        /\ Phase(pc') = 1 => pc \in {"idle", "app_subject"}
        /\ Phase(pc) = 4 => pc' = "idle"
        \* the success record is assembled by the final generation's step only
        /\ (pc' = "returned" /\ IsSuccess(payload')) => pc = "app_final"
        \* a step makes the calls of its own stage, after those made so far
        /\ Phase(pc) \in 1..3 =>
              /\ Len(calls') > Len(calls)
              /\ SubSeq(calls', 1, Len(calls)) = calls
              /\ \A i \in (Len(calls) + 1)..Len(calls') : calls'[i].stage = StageAt(pc)
        /\ Phase(pc) = 4 => calls' = calls
        \* a fatal failure ends generate_cocktail_data in the same step
        /\ (Phase(pc) \in 1..3 /\ \E i \in (Len(calls) + 1)..Len(calls') : FatalFailure(calls'[i])) =>
              /\ pc' \in {"returned", "raised"}
              /\ pc' = "returned" => IsFailure(payload')

\* the calls of a request of app.py so far
C11_Calls ==
    endpoint \in AppEndpoints =>
        /\ \A i, j \in DOMAIN calls :
              i < j =>
                 /\ StageRank(calls[i].stage) <= StageRank(calls[j].stage)
                 /\ ~(calls[i].op = calls[j].op /\ calls[i].stage = calls[j].stage)
        /\ \A i \in DOMAIN calls :
              FatalFailure(calls[i]) =>
                 /\ i = Len(calls)
                 /\ pc \in {"returned", "raised", "idle"}
                 /\ pc = "returned" => IsFailure(payload)
                 /\ pc = "idle" => FailureBody

\* C11: a request of app.py's generate_cocktail_data goes through subject
\* resolution, slot search and verification, final generation and assembly
\* in that order; no external call of a stage is made a second time; and
\* after a fatal failure no further call is made and the request ends as a
\* failure.
C11_StagesInOrderNoRetry == [][C11_Step]_vars /\ []C11_Calls

\* a URL request of app.py answered with a failure: the page was read and
\* summarised, the queries written, one slot's search found nothing, one
\* slot's candidates all failed their probe, and the final generation failed
C11_Witness ==
    /\ endpoint \in AppEndpoints /\ pc = "idle" /\ FailureBody
    /\ Succeeded("read_url_content", "subject")
    /\ Succeeded("call_gemini", "queries")
    /\ Failed("google_search", "complementary")
    /\ Failed("verify_link", "contrasting")
    /\ Succeeded("verify_link", "tangent")
    /\ Failed("call_gemini", "final")
    /\ calls[Len(calls)].stage = "final"

====
